---- MODULE Spec2Model ----
(***************************************************************************)
(* terminal-snake (src/src/main.rs): the Game object (snake, food, score,  *)
(* high score, Playing/GameOver), the main loop that drives it from key    *)
(* events and the tick timer, and the high-score file.                     *)
(*                                                                         *)
(*   Spec      the Game API called in any order (tick, change_direction,   *)
(*             restart), as the unit tests call it                         *)
(*   SpecFair  Spec with a fair random choice in spawn_food                 *)
(*   SpecMain  main: the loop that draws, saves the high score, polls the  *)
(*             keyboard and ticks                                          *)
(*   SpecIO    load_high_score and save_high_score on a file of any        *)
(*             content                                                     *)
(*   SpecTick  tick_duration at any score                                  *)
(*                                                                         *)
(* The loop of spawn_food is a step of its own (spawning), taken inside    *)
(* the tick or restart that called it: no other operation starts before it *)
(* has found a free cell.                                                  *)
(***************************************************************************)
EXTENDS Integers, Sequences, FiniteSets, TLC

VARIABLES
    snake,           \* Game.snake: VecDeque<Position>, front = index 1
    direction,       \* Game.direction
    next_direction,  \* Game.next_direction
    food,            \* Game.food
    score,           \* Game.score: u32
    high_score,      \* Game.high_score: u32
    state,           \* Game.state: "Playing" | "GameOver"
    grid_width,      \* Game.grid_width
    grid_height,     \* Game.grid_height
    spawning,        \* TRUE while control is inside the loop of spawn_food
    file,            \* the high-score file at HIGH_SCORE_FILE
    was_playing,     \* main: was_playing
    pc,              \* main: the place in the loop ("api" when the Game is driven directly)
    tick_ms,         \* main: tick_duration of this pass of the loop, 0 before the first
    arg,             \* the score the last call of save_high_score was given
    ret,             \* the value the last direct call of load_high_score returned, <<>> before
    wrote,           \* history: whether the last fs::write of save_high_score succeeded
    new_high_score,  \* history: the high_score argument given to Game::new
    ended_max,       \* history: the largest score a game ended at so far, -1 when none did
    unsaved          \* history, main: games ended less calls of save_high_score

gameVars == <<snake, direction, next_direction, food, score, high_score, state,
              grid_width, grid_height, spawning>>
mainVars == <<was_playing, pc, tick_ms>>
ioVars == <<file, arg, ret, wrote>>
histVars == <<new_high_score, ended_max, unsaved>>
vars == <<gameVars, mainVars, ioVars, histVars>>

-----------------------------------------------------------------------------
(* Configuration *)

INITIAL_SNAKE_LENGTH == 3
BASE_TICK_MS == 200
MIN_TICK_MS == 50
SPEED_INCREASE_PER_FOOD == 5

\* The grid given to Game::new, GridW cells wide and half as high (main passes
\* 20 x 20, the tests 10 x 10).
GridW == 4
GridH == GridW \div 2
\* The largest high_score given to Game::new.
MaxNewHighScore == 2


\* The longest file content enumerated character by character.
MaxLen == 3
\* The largest score tick_duration is applied to directly.
MaxTickScore == 45

-----------------------------------------------------------------------------
(* u32 values, kept as two 16-bit halves <<hi, lo>> = hi * 65536 + lo *)

HALF == 65536

u32(n) == <<n \div HALF, n % HALF>>
as_int(v) == v[1] * HALF + v[2]
U32_MAX == <<HALF - 1, HALF - 1>>

\* u32::checked_mul(10) and u32::checked_add(d): <<>> stands for None.
checked_mul10(v) ==
    LET lo == v[2] * 10
        hi == v[1] * 10 + (lo \div HALF)
    IN IF hi >= HALF THEN <<>> ELSE <<hi, lo % HALF>>

checked_add(v, d) ==
    LET lo == v[2] + d
        hi == v[1] + (lo \div HALF)
    IN IF hi >= HALF THEN <<>> ELSE <<hi, lo % HALF>>

\* v / 10 and v % 10.
div10(v) ==
    LET r == (v[1] % 10) * HALF + v[2]
    IN <<v[1] \div 10, r \div 10>>
mod10(v) == ((v[1] % 10) * HALF + v[2]) % 10

-----------------------------------------------------------------------------
(* High score persistence *)

DigitChars == <<"0", "1", "2", "3", "4", "5", "6", "7", "8", "9">>
Whitespace == {" ", "\n", "\t", "\r"}

is_digit(c) == \E i \in 1..10 : DigitChars[i] = c
to_digit(c) == (CHOOSE i \in 1..10 : DigitChars[i] = c) - 1

\* The file: fs::read_to_string fails when it is missing or unreadable.
NoFile == [readable |-> FALSE, content |-> <<>>]
FileOf(text) == [readable |-> TRUE, content |-> text]

RECURSIVE trim_start(_)
trim_start(t) ==
    IF t # <<>> /\ t[1] \in Whitespace THEN trim_start(Tail(t)) ELSE t

RECURSIVE trim_end(_)
trim_end(t) ==
    IF t # <<>> /\ t[Len(t)] \in Whitespace
    THEN trim_end(SubSeq(t, 1, Len(t) - 1)) ELSE t

\* trim that strips the front only.
trim_front_only(t) == trim_start(t)

\* str::trim
trim(t) == trim_end(trim_start(t))

\* The digit loop of u32::from_str: acc * 10 + digit, None on a non-digit or on overflow.
RECURSIVE parse_digits(_, _)
parse_digits(t, acc) ==
    IF t = <<>> THEN acc
    ELSE IF ~is_digit(t[1]) THEN <<>>
    ELSE LET m == checked_mul10(acc) IN
         IF m = <<>> THEN <<>>
         ELSE LET a == checked_add(m, to_digit(t[1])) IN
              IF a = <<>> THEN <<>> ELSE parse_digits(Tail(t), a)

\* str::parse::<u32>: None on the empty string and on a lone sign, one leading
\* "+" is skipped, "-" is no digit of an unsigned type.
parse_u32(t) ==
    IF t = <<>> THEN <<>>
    ELSE IF Len(t) = 1 /\ t[1] \in {"+", "-"} THEN <<>>
    ELSE IF t[1] = "+" THEN parse_digits(Tail(t), u32(0))
    ELSE parse_digits(t, u32(0))

\* to_string that writes the digits lowest first.
RECURSIVE to_string_reversed(_)
to_string_reversed(v) ==
    IF v = u32(0) THEN <<>>
    ELSE <<DigitChars[mod10(v) + 1]>> \o to_string_reversed(div10(v))

\* The decimal digits of v, highest first, none for 0.
RECURSIVE to_string_digits(_)
to_string_digits(v) ==
    IF v = u32(0) THEN <<>>
    ELSE to_string_digits(div10(v)) \o <<DigitChars[mod10(v) + 1]>>

\* u32::to_string
to_string(v) == IF v = u32(0) THEN <<"0">> ELSE to_string_digits(v)

load_high_score(f) ==
    IF ~f.readable THEN u32(0)
    ELSE LET parsed == parse_u32(trim(f.content)) IN
         IF parsed = <<>> THEN u32(0) ELSE parsed

\* fs::write either replaces the content (ok) or fails and leaves the file; the
\* result is dropped.
save_high_score(v, ok) ==
    /\ file' = IF ok THEN FileOf(to_string(v)) ELSE file
    /\ wrote' = ok

-----------------------------------------------------------------------------
(* Types *)

Directions == {"Up", "Down", "Left", "Right"}

Position(px, py) == [x |-> px, y |-> py]

opposite(d) ==
    CASE d = "Up" -> "Down"
      [] d = "Down" -> "Up"
      [] d = "Left" -> "Right"
      [] d = "Right" -> "Left"

-----------------------------------------------------------------------------
(* VecDeque helpers *)

\* contains that misses the last element.
contains_but_last(s, p) == \E i \in 1..(Len(s) - 1) : s[i] = p

contains(s, p) == \E i \in 1..Len(s) : s[i] = p

push_front(s, p) == <<p>> \o s

\* pop_back that removes nothing.
pop_back_nothing(s) == s

pop_back(s) == SubSeq(s, 1, Len(s) - 1)

-----------------------------------------------------------------------------
(* Game logic *)

\* The cells of a draw that starts at column 1.
GridCells_from_one(w, h) == {Position(px, py) : px \in 1..(w - 1), py \in 0..(h - 1)}

\* The cells spawn_food draws from: gen_range(0..grid_width) x gen_range(0..grid_height).
GridCells(w, h) == {Position(px, py) : px \in 0..(w - 1), py \in 0..(h - 1)}

\* The snake Game::new and restart build: horizontal, head at the centre, facing right.
initial_snake(w, h) ==
    [i \in 1..INITIAL_SNAKE_LENGTH |-> Position((w \div 2) - (i - 1), h \div 2)]

\* new_head with y growing upwards.
new_head_y_up(head, d) ==
    CASE d = "Up" -> Position(head.x, head.y + 1)
      [] d = "Down" -> Position(head.x, head.y - 1)
      [] d = "Left" -> Position(head.x - 1, head.y)
      [] d = "Right" -> Position(head.x + 1, head.y)

\* new_head of tick: the head moved one cell in direction d.
new_head_of(head, d) ==
    CASE d = "Up" -> Position(head.x, head.y - 1)
      [] d = "Down" -> Position(head.x, head.y + 1)
      [] d = "Left" -> Position(head.x - 1, head.y)
      [] d = "Right" -> Position(head.x + 1, head.y)

\* The wall check of tick.
wall_collision(p, w, h) == p.x < 0 \/ p.x >= w \/ p.y < 0 \/ p.y >= h

\* end_game that stores the score whatever the high score is.
end_game_overwrite ==
    /\ high_score' = score
    /\ state' = "GameOver"

end_game ==
    /\ high_score' = IF score > high_score THEN score ELSE high_score
    /\ state' = "GameOver"

\* spawn_food that keeps the first cell drawn.
spawn_food_unchecked ==
    /\ spawning
    /\ \E pos \in GridCells(grid_width, grid_height) :
          food' = pos /\ spawning' = FALSE
    /\ UNCHANGED <<snake, direction, next_direction, score, high_score, state,
                   grid_width, grid_height>>

\* One pass of the loop of spawn_food: draw a cell, keep it when it is off the snake.
spawn_food ==
    /\ spawning
    /\ \E pos \in GridCells(grid_width, grid_height) :
          IF ~contains(snake, pos)
          THEN food' = pos /\ spawning' = FALSE
          ELSE UNCHANGED <<food, spawning>>
    /\ UNCHANGED <<snake, direction, next_direction, score, high_score, state,
                   grid_width, grid_height>>

tick ==
    IF state # "Playing"
    THEN UNCHANGED gameVars
    ELSE
        /\ direction' = next_direction
        /\ LET new_head == new_head_of(Head(snake), next_direction) IN
           IF wall_collision(new_head, grid_width, grid_height)
           THEN /\ end_game
                /\ UNCHANGED <<snake, food, score, spawning>>
           ELSE IF contains(snake, new_head)
           THEN /\ end_game
                /\ UNCHANGED <<snake, food, score, spawning>>
           ELSE IF new_head = food
           THEN /\ snake' = push_front(snake, new_head)
                /\ score' = score + 1
                /\ spawning' = TRUE
                /\ UNCHANGED <<food, high_score, state>>
           ELSE /\ snake' = pop_back(push_front(snake, new_head))
                /\ UNCHANGED <<food, score, high_score, state, spawning>>
        /\ UNCHANGED <<next_direction, grid_width, grid_height>>

\* change_direction that compares with the queued direction.
change_direction_queued(new_direction) ==
    /\ next_direction' = IF new_direction # opposite(next_direction)
                         THEN new_direction ELSE next_direction
    /\ UNCHANGED <<snake, direction, food, score, high_score, state,
                   grid_width, grid_height, spawning>>

\* change_direction that ends the game on a turn it refuses.
change_direction_reversal_ends(new_direction) ==
    /\ next_direction' = IF new_direction # opposite(direction)
                         THEN new_direction ELSE next_direction
    /\ state' = IF new_direction # opposite(direction) THEN state ELSE "GameOver"
    /\ UNCHANGED <<snake, direction, food, score, high_score,
                   grid_width, grid_height, spawning>>

change_direction(new_direction) ==
    /\ next_direction' = IF new_direction # opposite(direction)
                         THEN new_direction ELSE next_direction
    /\ UNCHANGED <<snake, direction, food, score, high_score, state,
                   grid_width, grid_height, spawning>>

\* tick_duration without the MIN_TICK_MS floor.
tick_duration_no_floor(s) ==
    LET speed_reduction == s * SPEED_INCREASE_PER_FOOD
    IN IF BASE_TICK_MS >= speed_reduction THEN BASE_TICK_MS - speed_reduction ELSE 0

tick_duration(s) ==
    LET speed_reduction == s * SPEED_INCREASE_PER_FOOD
        saturating_sub == IF BASE_TICK_MS >= speed_reduction
                          THEN BASE_TICK_MS - speed_reduction ELSE 0
    IN IF saturating_sub >= MIN_TICK_MS THEN saturating_sub ELSE MIN_TICK_MS

\* restart that leaves the queued direction as it is.
restart_keeps_queued ==
    /\ snake' = initial_snake(grid_width, grid_height)
    /\ direction' = "Right"
    /\ score' = 0
    /\ state' = "Playing"
    /\ spawning' = TRUE
    /\ UNCHANGED <<next_direction, food, high_score, grid_width, grid_height>>

restart ==
    /\ snake' = initial_snake(grid_width, grid_height)
    /\ direction' = "Right"
    /\ next_direction' = "Right"
    /\ score' = 0
    /\ state' = "Playing"
    /\ spawning' = TRUE
    /\ UNCHANGED <<food, high_score, grid_width, grid_height>>

is_game_over == state = "GameOver"

-----------------------------------------------------------------------------
(* History *)

\* A step that ends a game records the score the game ended at.
Max(S) == CHOOSE m \in S : \A n \in S : n <= m

RecordEnd ==
    ended_max' = IF state = "Playing" /\ state' = "GameOver"
                 THEN Max({ended_max, score}) ELSE ended_max

\* A step of the main loop that ends a game leaves one more game unsaved.
RecordUnsaved ==
    unsaved' = IF state = "Playing" /\ state' = "GameOver"
               THEN unsaved + 1 ELSE unsaved

-----------------------------------------------------------------------------
(* Spec: the Game API, called in any order *)

\* Game::new(GridW, GridH, h), spawn_food included.
GameNew(w, h, hs) ==
    /\ snake = initial_snake(w, h)
    /\ direction = "Right"
    /\ next_direction = "Right"
    /\ food \in {c \in GridCells(w, h) : ~contains(initial_snake(w, h), c)}
    /\ score = 0
    /\ high_score = hs
    /\ state = "Playing"
    /\ grid_width = w
    /\ grid_height = h
    /\ spawning = FALSE

\* What the Game API leaves alone: the main loop and the file.
NoMain == pc = "api" /\ was_playing = TRUE /\ tick_ms = 0
NoIO == file = NoFile /\ arg = u32(0) /\ ret = <<>> /\ wrote = FALSE

Init ==
    /\ \E hs \in 0..MaxNewHighScore :
          GameNew(GridW, GridH, hs) /\ new_high_score = hs
    /\ ended_max = -1
    /\ unsaved = 0
    /\ NoMain
    /\ NoIO

CallTick ==
    /\ ~spawning
    /\ tick
    /\ RecordEnd
    /\ UNCHANGED <<new_high_score, unsaved, mainVars, ioVars>>

CallChangeDirection ==
    /\ ~spawning
    /\ \E d \in Directions : change_direction(d)
    /\ RecordEnd
    /\ UNCHANGED <<new_high_score, unsaved, mainVars, ioVars>>

CallRestart ==
    /\ ~spawning
    /\ restart
    /\ RecordEnd
    /\ UNCHANGED <<new_high_score, unsaved, mainVars, ioVars>>

\* The loop of spawn_food, inside the tick or restart that called it.
SpawnFoodLoop ==
    /\ spawn_food
    /\ UNCHANGED <<histVars, mainVars, ioVars>>

Next ==
    \/ CallTick
    \/ CallChangeDirection
    \/ CallRestart
    \/ SpawnFoodLoop

Spec == Init /\ [][Next]_vars

\* Spec with a fair random choice in spawn_food: a draw that can hit a free
\* cell for ever does hit one.
SpecFair == Init /\ [][Next]_vars /\ WF_vars(SpawnFoodLoop)

-----------------------------------------------------------------------------
(* SpecIO and SpecTick: load_high_score and save_high_score, and tick_duration, called directly *)

Alphabet == {"0", "1", "9", "+", " ", "x"}
ShortTexts == UNION {[1..n -> Alphabet] : n \in 0..MaxLen}
MaxText == <<"4", "2", "9", "4", "9", "6", "7", "2", "9", "5">>
LongTexts ==
    { MaxText,
      <<"4", "2", "9", "4", "9", "6", "7", "2", "9", "6">>,
      <<"4", "2", "9", "4", "9", "6", "7", "3", "0", "0">>,
      <<"0", "4", "2", "9", "4", "9", "6", "7", "2", "9", "5">>,
      <<"+", "4", "2", "9", "4", "9", "6", "7", "2", "9", "5", "\n">>,
      <<"4", "2", "9", "4", "9", "6", "7", "2", "9", "5", "0">>,
      <<"9", "9", "9", "9", "9", "9", "9", "9", "9", "9">>,
      <<" ", "6", "5", "5", "3", "6", "\r", "\n">>,
      <<"-">>, <<"-", "1">>, <<"-", "0">>, <<"1", "-">>, <<"\n">>, <<"\t", "7", "\n">>,
      <<"1", "\n", "9">>, <<"+", "-", "1">>, <<"4", "2">>,
      <<"n", "o", "t", "_", "a", "_", "n", "u", "m", "b", "e", "r">> }
FileInputs == {NoFile} \cup {FileOf(t) : t \in ShortTexts \cup LongTexts}
ScoreInputs ==
    { u32(0), u32(7), u32(42), u32(100), u32(65535), u32(65536), u32(1000000),
      <<32768, 0>>, <<65535, 65534>>, U32_MAX }

\* A fresh Game beside a file with any content.
InitIO ==
    /\ GameNew(GridW, GridH, 0) /\ new_high_score = 0
    /\ ended_max = -1
    /\ unsaved = 0
    /\ NoMain
    /\ arg = u32(0) /\ ret = <<>> /\ wrote = FALSE
    /\ file \in FileInputs

FnLoad ==
    /\ ret' = load_high_score(file)
    /\ UNCHANGED <<gameVars, mainVars, file, arg, wrote, histVars>>

FnSave ==
    /\ \E v \in ScoreInputs, ok \in BOOLEAN : save_high_score(v, ok) /\ arg' = v
    /\ UNCHANGED <<gameVars, mainVars, ret, histVars>>

NextIO ==
    \/ FnLoad
    \/ FnSave

SpecIO == InitIO /\ [][NextIO]_vars

\* A Game whose score was set directly, as the unit tests set it.
InitTick ==
    /\ snake = initial_snake(GridW, GridH)
    /\ direction = "Right"
    /\ next_direction = "Right"
    /\ food \in {c \in GridCells(GridW, GridH) : ~contains(initial_snake(GridW, GridH), c)}
    /\ score \in 0..MaxTickScore
    /\ high_score = 0
    /\ state = "Playing"
    /\ grid_width = GridW
    /\ grid_height = GridH
    /\ spawning = FALSE
    /\ new_high_score = 0
    /\ ended_max = -1
    /\ unsaved = 0
    /\ NoMain
    /\ NoIO

FnTickDuration ==
    /\ tick_ms' = tick_duration(score)
    /\ UNCHANGED <<gameVars, was_playing, pc, ioVars, histVars>>

NextTick == FnTickDuration

SpecTick == InitTick /\ [][NextTick]_vars

-----------------------------------------------------------------------------
(* SpecMain: main, the loop that drives the Game from key events and the timer *)

\* What HIGH_SCORE_FILE holds when the program starts.
MainFiles == {NoFile, FileOf(<<"2", "\n">>)}

\* main up to the loop: the high score is loaded and the Game built.
InitMain ==
    /\ file \in MainFiles
    /\ new_high_score = as_int(load_high_score(file))
    /\ GameNew(GridW, GridH, new_high_score)
    /\ was_playing = TRUE
    /\ pc = "draw"
    /\ tick_ms = 0
    /\ arg = u32(0) /\ ret = <<>> /\ wrote = FALSE
    /\ ended_max = -1
    /\ unsaved = 0

\* The elapsed time is not modelled: after a key event the tick may be due or not.
AfterEvent == {"update", "draw"}

\* The save of main with the value v, counted in the history.
MainSave(v) ==
    /\ \E ok \in BOOLEAN : save_high_score(v, ok)
    /\ arg' = v
    /\ unsaved' = unsaved - 1

\* The top of the loop with the save taken in every pass that finds the game over.
MainDraw_every_pass ==
    /\ pc = "draw" /\ ~spawning
    /\ IF is_game_over
       THEN /\ MainSave(u32(high_score))
            /\ was_playing' = FALSE
       ELSE UNCHANGED <<file, wrote, arg, unsaved, was_playing>>
    /\ tick_ms' = tick_duration(score)
    /\ pc' = "poll"
    /\ UNCHANGED <<gameVars, ret, new_high_score, ended_max>>

\* The top of the loop: draw, save the high score of a game that just ended,
\* take tick_duration.
MainDraw ==
    /\ pc = "draw" /\ ~spawning
    /\ IF was_playing /\ is_game_over
       THEN /\ MainSave(u32(high_score))
            /\ was_playing' = FALSE
       ELSE UNCHANGED <<file, wrote, arg, unsaved, was_playing>>
    /\ tick_ms' = tick_duration(score)
    /\ pc' = "poll"
    /\ UNCHANGED <<gameVars, ret, new_high_score, ended_max>>

\* event::poll ran into the timeout: the tick is due.
PollTimeout ==
    /\ pc = "poll"
    /\ pc' = "update"
    /\ UNCHANGED <<gameVars, was_playing, tick_ms, ioVars, histVars>>

KeyEsc ==
    /\ pc = "poll"
    /\ pc' = "exit"
    /\ UNCHANGED <<gameVars, was_playing, tick_ms, ioVars, histVars>>

\* The R arm without its guard: R restarts in any state.
KeyR_unguarded ==
    /\ pc = "poll"
    /\ restart /\ was_playing' = TRUE
    /\ pc' \in AfterEvent
    /\ RecordEnd
    /\ RecordUnsaved
    /\ UNCHANGED <<tick_ms, ioVars, new_high_score>>

\* R restarts a game that is over; while Playing the guard of its arm fails
\* and the key falls to the catch-all arm.
KeyR ==
    /\ pc = "poll"
    /\ IF is_game_over
       THEN restart /\ was_playing' = TRUE
       ELSE UNCHANGED <<gameVars, was_playing>>
    /\ pc' \in AfterEvent
    /\ RecordEnd
    /\ RecordUnsaved
    /\ UNCHANGED <<tick_ms, ioVars, new_high_score>>

\* W, S, A, D
KeyDirection ==
    /\ pc = "poll"
    /\ \E d \in Directions : change_direction(d)
    /\ pc' \in AfterEvent
    /\ RecordEnd
    /\ RecordUnsaved
    /\ UNCHANGED <<was_playing, tick_ms, ioVars, new_high_score>>

\* Any other key, a key release, or an event that is no key.
OtherEvent ==
    /\ pc = "poll"
    /\ pc' \in AfterEvent
    /\ UNCHANGED <<gameVars, was_playing, tick_ms, ioVars, histVars>>

\* last_tick.elapsed() >= tick_duration: game.tick()
MainTick ==
    /\ pc = "update" /\ ~spawning
    /\ tick
    /\ pc' = "draw"
    /\ RecordEnd
    /\ RecordUnsaved
    /\ UNCHANGED <<was_playing, tick_ms, ioVars, new_high_score>>

NextMain ==
    \/ MainDraw
    \/ PollTimeout
    \/ KeyEsc
    \/ KeyR
    \/ KeyDirection
    \/ OtherEvent
    \/ MainTick
    \/ SpawnFoodLoop

SpecMain == InitMain /\ [][NextMain]_vars

-----------------------------------------------------------------------------
(* Vocabulary of the properties *)

\* The unit step of each direction on the screen: y grows downwards.
DX(d) == IF d = "Left" THEN -1 ELSE IF d = "Right" THEN 1 ELSE 0
DY(d) == IF d = "Up" THEN -1 ELSE IF d = "Down" THEN 1 ELSE 0
Moved(p, d) == [x |-> p.x + DX(d), y |-> p.y + DY(d)]

InGrid(p) == p.x \in 0..(grid_width - 1) /\ p.y \in 0..(grid_height - 1)
SnakeCells == {snake[i] : i \in 1..Len(snake)}
OppositePairs == {<<"Up", "Down">>, <<"Down", "Up">>, <<"Left", "Right">>, <<"Right", "Left">>}

\* The cell the next tick moves the head to.
NextHead == Moved(snake[1], next_direction)
Collides == ~InGrid(NextHead) \/ NextHead \in SnakeCells

-----------------------------------------------------------------------------
(* C1 *)

\* C1: a tick taken in Playing ends the game exactly when the new head is off
\* the grid or on a cell the snake occupied before the move, the tail cell
\* included; a tick that ends the game leaves snake, food and score alone,
\* and any other tick leaves the state Playing.
C1_GameOverIffCollision ==
    [][(CallTick /\ state = "Playing") =>
          /\ (state' = "GameOver") <=> Collides
          /\ state' = "GameOver" => UNCHANGED <<snake, food, score>>
          /\ state' # "GameOver" => state' = "Playing"]_vars

\* A game that ended on the cell its own tail occupied.
C1_Witness ==
    /\ state = "GameOver"
    /\ Len(snake) >= 4
    /\ Moved(snake[1], direction) = snake[Len(snake)]

-----------------------------------------------------------------------------
(* C2 *)

C2_Step ==
    /\ score' > score => CallTick /\ score' = score + 1
    /\ (CallTick /\ state = "Playing") => ((score' = score + 1) <=> (NextHead = food))

\* C2: the snake is INITIAL_SNAKE_LENGTH + score cells long in every state;
\* a tick raises score, by exactly 1, exactly when the new head is the food
\* cell, and nothing else raises score.
C2_GrowsOnePerFood ==
    /\ [](Len(snake) = INITIAL_SNAKE_LENGTH + score)
    /\ [][C2_Step]_vars

\* A snake that has eaten twice and moved on.
C2_Witness == score = 2 /\ Len(snake) = 5 /\ ~spawning /\ state = "Playing"

-----------------------------------------------------------------------------
(* C3 *)

\* C3: whenever tick, change_direction or restart has returned, the food
\* cell is inside the grid and not on the snake.
C3_FoodOnFreeCell ==
    ~spawning => InGrid(food) /\ food \notin SnakeCells

\* Food respawned by a tick that ate, in a game started by restart.
C3_Witness ==
    ~spawning /\ state = "Playing" /\ score >= 1 /\ ended_max >= 0 /\ InGrid(food)

-----------------------------------------------------------------------------
(* C4 *)

\* C4 as stated: every change of the game state is made by a timer tick or by
\* one of the four directional keys.
C4_TickOrDirectionKey ==
    [][state' # state => (MainTick \/ KeyDirection)]_vars

C4_Step ==
    /\ (state = "Playing" /\ state' = "GameOver") => MainTick
    /\ (state = "GameOver" /\ state' = "Playing") => KeyR
    /\ KeyDirection => state' = state

\* C4, amended: the game is Playing or GameOver; only a timer tick takes it
\* from Playing to GameOver and only the R key takes it from GameOver to
\* Playing; the four directional keys never change the game state.
C4_TickOrRestartKey ==
    /\ [](state \in {"Playing", "GameOver"})
    /\ [][C4_Step]_vars

\* A game restarted with R after a tick ended the one before, about to turn.
C4_Witness ==
    /\ state = "Playing"
    /\ ended_max >= 0
    /\ pc = "poll"
    /\ was_playing

-----------------------------------------------------------------------------
(* C5 *)

\* C5 as stated: tick_duration returns the same duration in every state,
\* whatever the score.
C5_FixedInterval == tick_ms # 0 => tick_ms = BASE_TICK_MS

\* C5, amended: tick_duration depends on the score and on nothing else: it is
\* BASE_TICK_MS less SPEED_INCREASE_PER_FOOD for each point of score, and
\* MIN_TICK_MS once that would fall below MIN_TICK_MS.
C5_IntervalByScore ==
    tick_ms # 0 =>
        tick_ms = IF score * SPEED_INCREASE_PER_FOOD <= BASE_TICK_MS - MIN_TICK_MS
                  THEN BASE_TICK_MS - score * SPEED_INCREASE_PER_FOOD
                  ELSE MIN_TICK_MS

\* The floor, at a score where the reduction alone would go below it.
C5_Witness ==
    /\ tick_ms = MIN_TICK_MS
    /\ score * SPEED_INCREASE_PER_FOOD > BASE_TICK_MS

-----------------------------------------------------------------------------
(* C8 *)

\* The content without the whitespace at its two ends.
Stripped(c) ==
    LET inked == {k \in 1..Len(c) : c[k] \notin Whitespace}
    IN IF inked = {} THEN <<>>
       ELSE SubSeq(c, CHOOSE k \in inked : \A j \in inked : k <= j,
                      CHOOSE k \in inked : \A j \in inked : j <= k)

Unsigned(t) == IF t # <<>> /\ t[1] = "+" THEN Tail(t) ELSE t
DigitSet == {DigitChars[i] : i \in 1..10}
Rank(c) == CHOOSE r \in 0..9 : DigitChars[r + 1] = c

\* The digits from the first one that is not "0" on.
Significant(b) ==
    LET nz == {k \in 1..Len(b) : b[k] # "0"}
    IN IF nz = {} THEN <<>>
       ELSE SubSeq(b, CHOOSE k \in nz : \A j \in nz : k <= j, Len(b))

\* a <= b for two decimal numerals of the same length.
NumeralLeq(a, b) ==
    \/ a = b
    \/ \E k \in 1..Len(a) :
          /\ Rank(a[k]) < Rank(b[k])
          /\ \A j \in 1..(k - 1) : a[j] = b[j]

\* The text is a decimal numeral, one "+" allowed in front, of a value up to
\* 4294967295.
IsU32Text(t) ==
    LET b == Unsigned(t)
        z == Significant(b)
    IN /\ b # <<>>
       /\ \A k \in 1..Len(b) : b[k] \in DigitSet
       /\ \/ Len(z) < Len(MaxText)
          \/ Len(z) = Len(MaxText) /\ NumeralLeq(z, MaxText)

\* The numeral of the value of a text that IsU32Text.
Numeral(t) ==
    IF Significant(Unsigned(t)) = <<>> THEN <<"0">> ELSE Significant(Unsigned(t))

IsU32(v) == Len(v) = 2 /\ v[1] \in 0..(HALF - 1) /\ v[2] \in 0..(HALF - 1)

\* C8: load_high_score always returns a u32: 0 when the file is missing or
\* unreadable or its trimmed content is no u32 numeral, and the value of the
\* numeral otherwise.
C8_LoadDefaultsToZero ==
    [][FnLoad =>
          /\ IsU32(ret')
          /\ IF file.readable /\ IsU32Text(Stripped(file.content))
             THEN to_string(ret') = Numeral(Stripped(file.content))
             ELSE ret' = u32(0)]_vars

\* 0 returned for a numeral one above the largest u32.
C8_Witness ==
    /\ ret = u32(0)
    /\ file = FileOf(<<"4", "2", "9", "4", "9", "6", "7", "2", "9", "6">>)

-----------------------------------------------------------------------------
(* C9 *)

-----------------------------------------------------------------------------
(* C6 *)

C6_Step ==
    /\ high_score' >= high_score
    /\ CallRestart => high_score' = high_score
    /\ (state = "Playing" /\ state' = "GameOver") =>
          high_score' = Max({high_score, score})

\* C6: high_score is the maximum of the value given to Game::new and the
\* scores at which games ended so far; ending a game sets it to
\* max(high_score, score); it never decreases and restart leaves it alone.
C6_HighScoreRunningMax ==
    /\ [](high_score = Max({new_high_score, ended_max}))
    /\ [][C6_Step]_vars

\* A game that ended below the high score an earlier game had raised.
C6_Witness ==
    /\ state = "GameOver"
    /\ high_score > new_high_score
    /\ score < high_score

-----------------------------------------------------------------------------
(* C7 *)

\* C7: restart, from any state, leaves score 0, state Playing, both directions
\* Right and the three-cell snake with its head at the centre of the grid, and
\* does not touch high_score, grid_width or grid_height: every field but food
\* is as Game::new(grid_width, grid_height, high_score) sets it.
C7_RestartResets ==
    [][CallRestart =>
          LET cx == grid_width \div 2
              cy == grid_height \div 2
          IN /\ score' = 0
             /\ state' = "Playing"
             /\ direction' = "Right"
             /\ next_direction' = "Right"
             /\ snake' = <<[x |-> cx, y |-> cy], [x |-> cx - 1, y |-> cy],
                           [x |-> cx - 2, y |-> cy]>>
             /\ UNCHANGED <<high_score, grid_width, grid_height>>]_vars

\* Inside a restart taken after a game that had grown the snake.
C7_Witness == spawning /\ score = 0 /\ ended_max >= 1

-----------------------------------------------------------------------------
(* C10 *)

C10_Step ==
    (CallTick /\ state = "Playing") =>
        /\ <<direction, direction'>> \notin OppositePairs
        /\ NextHead # snake[2]

\* C10: next_direction is never the opposite of direction, so the direction a
\* tick applies is never the opposite of the one the tick before applied, and
\* the head never moves onto the segment right behind it.
C10_NoReversal ==
    /\ [](<<direction, next_direction>> \notin OppositePairs)
    /\ [][C10_Step]_vars

\* A left turn queued after a tick turned the grown snake up.
C10_Witness ==
    /\ state = "Playing"
    /\ ~spawning
    /\ direction = "Up"
    /\ next_direction = "Left"
    /\ score >= 1

-----------------------------------------------------------------------------
(* C11 *)

\* C11: a tick in Playing that does not collide sets direction to
\* next_direction and puts in front of the old snake the old head moved one
\* cell in that direction (Up y-1, Down y+1, Left x-1, Right x+1); the old
\* snake follows in its order, whole when the new head is the food cell and
\* without its last cell otherwise; food is respawned only when it was eaten.
C11_MovementStep ==
    [][(CallTick /\ state = "Playing" /\ ~Collides) =>
          LET h == snake[1]
              nh == CASE next_direction = "Up" -> [x |-> h.x, y |-> h.y - 1]
                      [] next_direction = "Down" -> [x |-> h.x, y |-> h.y + 1]
                      [] next_direction = "Left" -> [x |-> h.x - 1, y |-> h.y]
                      [] next_direction = "Right" -> [x |-> h.x + 1, y |-> h.y]
              eaten == nh = food
          IN /\ direction' = next_direction
             /\ Len(snake') = IF eaten THEN Len(snake) + 1 ELSE Len(snake)
             /\ snake'[1] = nh
             /\ \A i \in 2..Len(snake') : snake'[i] = snake[i - 1]
             /\ food' = food
             /\ spawning' = eaten]_vars

\* Inside the tick that moved the head up onto the food: the snake has grown
\* and the food is about to be respawned.
C11_Witness ==
    /\ spawning
    /\ score >= 1
    /\ direction = "Up"
    /\ snake[1] = food
    /\ snake[2] = [x |-> food.x, y |-> food.y + 1]

-----------------------------------------------------------------------------
(* C12 *)

C12_Step ==
    /\ (state = "Playing" /\ state' = "GameOver") => (MainTick /\ Collides)
    /\ (state = "GameOver" /\ state' = "Playing") => (KeyR /\ pc = "poll")
    /\ (KeyR /\ state = "Playing") => UNCHANGED gameVars
    /\ KeyDirection => state' = state

\* C12: in the main loop Playing becomes GameOver only in a tick whose new
\* head collides, and GameOver becomes Playing only on an R key press; an R
\* key press while Playing leaves the whole Game as it is, and W, A, S, D
\* never change Playing/GameOver.
C12_StateProtocol == [][C12_Step]_vars

\* Inside the restart that an R key press started after a game that had
\* scored ended: the game is Playing again and was_playing is set.
C12_Witness ==
    /\ spawning
    /\ state = "Playing"
    /\ score = 0
    /\ was_playing
    /\ ended_max >= 1
    /\ pc \in AfterEvent

-----------------------------------------------------------------------------
(* C13 *)

C13_Step ==
    /\ unsaved' # unsaved /\ state' = state =>
          /\ MainDraw
          /\ unsaved = 1 /\ unsaved' = 0
          /\ is_game_over
          /\ arg' = u32(high_score)
    /\ <<file, arg, wrote>>' # <<file, arg, wrote>> => unsaved' = unsaved - 1
    /\ KeyEsc => UNCHANGED <<file, arg, wrote, unsaved>>

-----------------------------------------------------------------------------
(* C14 *)

FreeCells == GridCells(grid_width, grid_height) \ SnakeCells
Full == \A px \in 0..(grid_width - 1), py \in 0..(grid_height - 1) :
            [x |-> px, y |-> py] \in SnakeCells

\* C14: with a fair random choice spawn_food returns whenever a cell of the
\* grid is free; when the snake fills the grid, which only the tick that eats
\* the last food brings about, spawn_food never returns: nothing changes any
\* more, and the game is left Playing inside that tick.
C14_SpawnReturnsIffFreeCell ==
    /\ (spawning /\ ~Full) ~> ~spawning
    /\ [][~(spawning /\ Full)]_vars
    /\ [](Full => spawning /\ state = "Playing" /\ snake[1] = food)

\* The snake on every cell of the grid, inside the tick that ate the last food.
C14_Witness ==
    /\ spawning
    /\ FreeCells = {}
    /\ Len(snake) = grid_width * grid_height
    /\ score = grid_width * grid_height - INITIAL_SNAKE_LENGTH

====
